---- MODULE Spec2Model ----
(***************************************************************************)
(* Rada payment system: the Payment Orchestrator (PaymentProcessor), the   *)
(* transaction status operations of PaymentService with their HTTP routes, *)
(* and the Wallet Ledger (WalletService).                                  *)
(*                                                                         *)
(* Every await of the JavaScript code is a suspension point: one action    *)
(* models the code between two awaits together with the store or           *)
(* collaborator call that the first await issues.  A single SQL statement  *)
(* is atomic.                                                              *)
(***************************************************************************)
EXTENDS Integers, Sequences, FiniteSets, TLC

\* ------------------------------------------------------------------ bounds
NumUsers == 1
NumProc == 2
NumCb == 2
NumCreate == 1
NumStatusReq == 2
NumCancel == 1
MaxTx == 2
MaxAmount == 1
MaxClock == 2
NumOps == 2
MaxBalance == 2
NumWalletCreate == 3
NumTokenCalls == 3
NumSettings == 2

Users == 1..NumUsers
Procs == 1..NumProc
Cbs == 1..NumCb
Creates == 1..NumCreate
StatusReqs == 1..NumStatusReq
Cancels == 1..NumCancel
Amounts == 1..MaxAmount
Ops == 1..NumOps
WalletCreates == 1..NumWalletCreate
TokenCalls == 1..NumTokenCalls
SettingsCalls == 1..NumSettings

\* ------------------------------------------------------------------ values
\* NULL column of an id or timestamp column; invoices, checkout ids and
\* timestamps are positive.
NULL == 0
NoMessage == ""

\* Status strings exactly as the two writers spell them.
validStatuses == {"pending", "processing", "completed", "failed", "cancelled"}
validMethods == {"mpesa", "bitcoin", "lightning"}

IsPending(s) == s \in {"PENDING", "pending"}
IsProcessing(s) == s \in {"PROCESSING", "processing"}
IsCompleted(s) == s \in {"COMPLETED", "completed"}
IsFailed(s) == s \in {"FAILED", "failed"}
IsCancelled(s) == s \in {"CANCELLED", "cancelled"}
IsTerminal(s) == IsCompleted(s) \/ IsFailed(s) \/ IsCancelled(s)

VARIABLES
    now,           \* the wall clock read by Date.now() and new Date()
    locks,         \* lock store: the keys currently held
    transactions,  \* the transactions table, a sequence of rows; id = index
    paymentRecords,\* ids of transactions that have a method-specific record
    pp,            \* processPayment calls
    cb,            \* handleMPESACallback calls
    invoices,      \* Lightning node: number of invoices issued
    payCalls,      \* Lightning node: payInvoice calls received, per invoice
    paidOk,        \* Lightning node: payInvoice calls that succeeded, per invoice
    stkCount,      \* mobile-money gateway: collection requests accepted
    wallets,       \* the wallets table: balance per user
    credits,       \* per transaction: credits of its amount to the wallet
    cp,            \* createPayment calls
    sr,            \* PUT /:transactionId/status requests
    cr,            \* POST /:transactionId/cancel requests
    cache,         \* cache entry user_balance:{userId}, per user (NoCache: absent)
    wop,           \* wallet operations (creditWallet / debitWallet calls)
    auditLogs,     \* the audit_logs table: sequence of <<user, action>>
    walletRows,    \* the wallets table: number of rows per user_id
    cw,            \* createWallet calls
    tokenCache,    \* Redis entry rada:mpesa:access_token (NoToken: absent)
    delCalls,      \* Redis: DEL commands received for the token key
    tk,            \* token manager and STK push calls
    settings,      \* per user: wallet_type and lightning_address of the wallets
                   \* row, lightning_address of the users row
    ws,            \* updateWalletSettings calls
    unmatched      \* gateway: CheckoutRequestIDs whose callback was answered
                   \* with no Transaction found

vars == <<now, locks, transactions, paymentRecords, pp, cb, invoices, payCalls,
          paidOk, stkCount, wallets, credits, cp, sr, cr, cache,
          wop, auditLogs, walletRows, cw, tokenCache, delCalls, tk,
          settings, ws, unmatched>>

orchVars == <<now, locks, pp, cb, invoices, payCalls, paidOk, stkCount>>
ledgerVars == <<cp, sr, cr>>
walletVars == <<cache, wop, auditLogs>>
createVars == <<walletRows, cw>>
tokenVars == <<tokenCache, delCalls, tk>>
settingsVars == <<settings, ws>>
gatewayVars == <<unmatched>>
extVars == <<createVars, tokenVars, settingsVars, gatewayVars>>

TxIds == 1..Len(transactions)

\* ------------------------------------------------------------ transactions
NewRow(u, a, s) ==
    [userId |-> u, amount |-> a, status |-> s, lightningInvoice |-> NULL,
     paymentHash |-> NULL, mpesaCheckoutRequestId |-> NULL,
     errorMessage |-> NoMessage, completedAt |-> NULL]

\* SELECT ... FROM transactions WHERE id = $1 finds a row.
RowExists(t) == t \in TxIds

\* Sequelize instance.update(fields): one UPDATE of the given columns of row t.
UpdateRow(t, fields) ==
    [transactions EXCEPT ![t] =
        [f \in DOMAIN @ |-> IF f \in DOMAIN fields THEN fields[f] ELSE @[f]]]

\* Transaction.findOne({ where: { mpesaCheckoutRequestId } }): the matching ids.
FindByCheckout(id) ==
    {t \in TxIds : transactions[t].mpesaCheckoutRequestId = id}

\* --------------------------------------------------------------- lock store
\* Lock entries are <<key, holder>>; a key is <<userId, timestamp>>.
LockKey(u, ts) == <<u, ts>>
HeldKeys == {l[1] : l \in locks}
\* acquire sets the key for its caller; release deletes the caller's own entry.
LockStoreSet(key, holder) == locks \cup {<<key, holder>>}
\* Variant of release that deletes the key whoever holds it.
LockStoreDeleteAnyHolder(key, holder) == {l \in locks : l[1] # key}
LockStoreDelete(key, holder) == locks \ {<<key, holder>>}

\* ------------------------------------------------------------------- cache
NoCache == -1
\* cache.set(`user_balance:${userId}`, ...) and cache.del of that key.
CacheSet(u, balance) == [cache EXCEPT ![u] = balance]
CacheDel(u) == [cache EXCEPT ![u] = NoCache]
\* RedisCache.get/set/del catch every Redis error: a failed get returns null
\* (a miss), a failed set or del returns false and leaves the entry as it was.
CacheGetResults(u) == {cache[u], NoCache}
CacheSetResults(u, balance) == {CacheSet(u, balance), cache}
CacheDelResults(u) == {CacheDel(u), cache}

\* ------------------------------------------------------------ initial state
NoKey == <<0, 0>>
IdlePP == [pc |-> "idle", userId |-> 0, amount |-> 0, lockKey |-> NoKey,
           acquired |-> FALSE, tx |-> NULL, invoice |-> NULL, checkout |-> NULL,
           error |-> NoMessage, outcome |-> "none"]
IdleCB == [pc |-> "idle", ResultCode |-> 0, tx |-> NULL, seenStatus |-> "none",
           invoice |-> NULL, error |-> NoMessage, outcome |-> "none"]
DoneCB(out) == [IdleCB EXCEPT !.pc = "done", !.outcome = out]
IdleCP == [pc |-> "idle", hasField |-> FALSE, tx |-> NULL, outcome |-> "none"]
DoneCP(out) == [IdleCP EXCEPT !.pc = "done", !.outcome = out]
IdleSR == [pc |-> "idle", tx |-> NULL, status |-> "none", outcome |-> "none"]
DoneSR(out) == [IdleSR EXCEPT !.pc = "done", !.outcome = out]
IdleCR == [pc |-> "idle", tx |-> NULL, outcome |-> "none"]
DoneCR(out) == [IdleCR EXCEPT !.pc = "done", !.outcome = out]
IdleWOP == [pc |-> "idle", op |-> "none", userId |-> 0, amount |-> 0,
            read |-> 0, newBalance |-> 0, outcome |-> "none"]
DoneWOP(op, u, a, out) ==
    [IdleWOP EXCEPT !.pc = "done", !.op = op, !.userId = u, !.amount = a,
                    !.outcome = out]
IdleCW == [pc |-> "idle", userId |-> 0, validType |-> FALSE, outcome |-> "none"]
NoToken == 0
\* A wallet as createWallet leaves it with its defaults: type 'phoenix', no
\* lightning address.
NoAddress == "none"
InitialSettings == [walletType |-> "phoenix", lightningAddress |-> NoAddress,
                    userLightningAddress |-> NoAddress]
IdleWS == [pc |-> "idle", userId |-> 0, walletType |-> "none",
           lightningAddress |-> NoAddress, outcome |-> "none"]
IdleTK == [pc |-> "idle", op |-> "none", miss |-> FALSE, token |-> NoToken,
           outcome |-> "none"]
\* A call that got past the amount check ends with what it was called with
\* and, on success, the balance its UPDATE returned.
EndWOP(o, out) == [wop[o] EXCEPT !.pc = "done", !.read = 0, !.outcome = out]

InitState(balances, rows) ==
    /\ now = 1
    /\ locks = {}
    /\ transactions = <<>>
    /\ paymentRecords = {}
    /\ pp = [p \in Procs |-> IdlePP]
    /\ cb = [c \in Cbs |-> IdleCB]
    /\ invoices = 0
    /\ payCalls = [i \in Procs |-> 0]
    /\ paidOk = [i \in Procs |-> 0]
    /\ stkCount = 0
    /\ wallets = balances
    /\ credits = [t \in 1..MaxTx |-> 0]
    /\ cp = [r \in Creates |-> IdleCP]
    /\ sr = [r \in StatusReqs |-> IdleSR]
    /\ cr = [r \in Cancels |-> IdleCR]
    /\ cache = [u \in Users |-> NoCache]
    /\ wop = [o \in Ops |-> IdleWOP]
    /\ auditLogs = <<>>
    /\ walletRows = rows
    /\ cw = [w \in WalletCreates |-> IdleCW]
    /\ tokenCache = NoToken
    /\ delCalls = 0
    /\ tk = [g \in TokenCalls |-> IdleTK]
    /\ settings = [u \in Users |-> InitialSettings]
    /\ ws = [c \in SettingsCalls |-> IdleWS]
    /\ unmatched = {}

\* Every user has the one wallet row that createWallet inserted.
InitWith(balances) == InitState(balances, [u \in Users |-> 1])

\* createWallet inserts every wallet with balance 0.
Init == InitWith([u \in Users |-> 0])

\* Users that have no wallet yet.
InitCreate == InitState([u \in Users |-> 0], [u \in Users |-> 0])

\* Wallets that earlier credits have funded.
InitWallet == \E b \in [Users -> 0..MaxBalance] : InitWith(b)

\* Wallets as earlier credits and debits have left them: racing debits can
\* have overdrawn a wallet by up to the amount of one debit.
InitLedger == \E b \in [Users -> (0 - MaxAmount)..MaxBalance] : InitWith(b)

\* ------------------------------------------------- PaymentProcessor: initiate
\* processPayment entry: the lock key is built from the user id and Date.now().
ProcessPayment(p, u, a) ==
    /\ pp[p].pc = "idle"
    /\ \A q \in Procs : q < p => pp[q].pc # "idle"
    /\ \E ts \in now..MaxClock :
          /\ now' = ts
          /\ pp' = [pp EXCEPT ![p] = [@ EXCEPT !.pc = "acquire", !.userId = u,
                                        !.amount = a, !.lockKey = LockKey(u, ts)]]
    /\ UNCHANGED <<extVars, locks, transactions, paymentRecords, cb, invoices,
                   payCalls, paidOk, stkCount, wallets, credits,
                   ledgerVars, walletVars>>

\* lock.acquire(lockKey, 30000): check-and-set; true when the key was free,
\* false when it is held, or a raise when the lock store is unreachable.  The
\* code ignores the returned value and continues either way.
LockAcquire(p) ==
    /\ pp[p].pc = "acquire"
    /\ \/ /\ pp[p].lockKey \notin HeldKeys
          /\ locks' = LockStoreSet(pp[p].lockKey, p)
          /\ pp' = [pp EXCEPT ![p] = [@ EXCEPT !.pc = "create", !.acquired = TRUE]]
       \/ /\ pp[p].lockKey \in HeldKeys
          /\ locks' = locks
          /\ pp' = [pp EXCEPT ![p] = [@ EXCEPT !.pc = "create", !.acquired = FALSE]]
       \/ /\ locks' = locks
          /\ pp' = [pp EXCEPT ![p] = [@ EXCEPT !.pc = "release",
                                        !.error = "Lock store unreachable",
                                        !.outcome = "Error"]]
    /\ UNCHANGED <<extVars, now, transactions, paymentRecords, cb, invoices, payCalls,
                   paidOk, stkCount, wallets, credits, ledgerVars,
                   walletVars>>

\* Transaction.create({..., status: 'PENDING'}), outside the inner try.
CreateTransaction(p) ==
    /\ pp[p].pc = "create"
    /\ \/ /\ Len(transactions) < MaxTx
          /\ transactions' = Append(transactions,
                                    NewRow(pp[p].userId, pp[p].amount, "PENDING"))
          /\ pp' = [pp EXCEPT ![p] = [@ EXCEPT !.pc = "invoice",
                                        !.tx = Len(transactions) + 1]]
       \/ /\ transactions' = transactions
          /\ pp' = [pp EXCEPT ![p] = [@ EXCEPT !.pc = "release",
                                        !.error = "Database error",
                                        !.outcome = "Error"]]
    /\ UNCHANGED <<extVars, now, locks, paymentRecords, cb, invoices, payCalls, paidOk,
                   stkCount, wallets, credits, ledgerVars,
                   walletVars>>

\* Variant that goes on to the collection request when the invoice request
\* has failed.
GenerateInvoiceFailureIgnored(p) ==
    /\ pp[p].pc = "invoice"
    /\ \/ /\ invoices' = invoices + 1
          /\ pp' = [pp EXCEPT ![p] = [@ EXCEPT !.pc = "storeInvoice",
                                        !.invoice = invoices + 1]]
       \/ /\ invoices' = invoices
          /\ pp' = [pp EXCEPT ![p] = [@ EXCEPT !.pc = "stk"]]
    /\ UNCHANGED <<extVars, now, locks, transactions, paymentRecords, cb, payCalls,
                   paidOk, stkCount, wallets, credits, ledgerVars,
                   walletVars>>

\* lightningService.generateInvoice: a fresh payment request, or a raise.
GenerateInvoice(p) ==
    /\ pp[p].pc = "invoice"
    /\ \/ /\ invoices' = invoices + 1
          /\ pp' = [pp EXCEPT ![p] = [@ EXCEPT !.pc = "storeInvoice",
                                        !.invoice = invoices + 1]]
       \/ /\ invoices' = invoices
          /\ pp' = [pp EXCEPT ![p] = [@ EXCEPT !.pc = "catch",
                                        !.error = "Lightning error"]]
    /\ UNCHANGED <<extVars, now, locks, transactions, paymentRecords, cb, payCalls,
                   paidOk, stkCount, wallets, credits, ledgerVars,
                   walletVars>>

\* transaction.update({ lightningInvoice, paymentHash }).
StoreInvoice(p) ==
    /\ pp[p].pc = "storeInvoice"
    /\ \/ /\ transactions' = UpdateRow(pp[p].tx,
                 [lightningInvoice |-> pp[p].invoice, paymentHash |-> pp[p].invoice])
          /\ pp' = [pp EXCEPT ![p] = [@ EXCEPT !.pc = "stk"]]
       \/ /\ transactions' = transactions
          /\ pp' = [pp EXCEPT ![p] = [@ EXCEPT !.pc = "catch",
                                        !.error = "Database error"]]
    /\ UNCHANGED <<extVars, now, locks, paymentRecords, cb, invoices, payCalls, paidOk,
                   stkCount, wallets, credits, ledgerVars,
                   walletVars>>

\* mpesaService.initiateSTKPush: a fresh CheckoutRequestID, or a raise.
InitiateSTKPush(p) ==
    /\ pp[p].pc = "stk"
    /\ \/ /\ stkCount' = stkCount + 1
          /\ pp' = [pp EXCEPT ![p] = [@ EXCEPT !.pc = "storeStk",
                                        !.checkout = stkCount + 1]]
       \/ /\ stkCount' = stkCount
          /\ pp' = [pp EXCEPT ![p] = [@ EXCEPT !.pc = "catch",
                                        !.error = "M-PESA error"]]
    /\ UNCHANGED <<extVars, now, locks, transactions, paymentRecords, cb, invoices,
                   payCalls, paidOk, wallets, credits, ledgerVars,
                   walletVars>>

\* Variant whose update stores the CheckoutRequestID without the status.
StoreCheckoutKeepsStatus(p) ==
    /\ pp[p].pc = "storeStk"
    /\ transactions' = UpdateRow(pp[p].tx,
                                 [mpesaCheckoutRequestId |-> pp[p].checkout])
    /\ pp' = [pp EXCEPT ![p] = [@ EXCEPT !.pc = "release", !.outcome = "success"]]
    /\ UNCHANGED <<extVars, now, locks, paymentRecords, cb, invoices, payCalls, paidOk,
                   stkCount, wallets, credits, ledgerVars, walletVars>>

\* transaction.update({ mpesaCheckoutRequestId, status: 'PROCESSING' }), then
\* the return statement (the finally block still has to run).
StoreCheckout(p) ==
    /\ pp[p].pc = "storeStk"
    /\ \/ /\ transactions' = UpdateRow(pp[p].tx,
                 [mpesaCheckoutRequestId |-> pp[p].checkout, status |-> "PROCESSING"])
          /\ pp' = [pp EXCEPT ![p] = [@ EXCEPT !.pc = "release", !.outcome = "success"]]
       \/ /\ transactions' = transactions
          /\ pp' = [pp EXCEPT ![p] = [@ EXCEPT !.pc = "catch",
                                        !.error = "Database error"]]
    /\ UNCHANGED <<extVars, now, locks, paymentRecords, cb, invoices, payCalls, paidOk,
                   stkCount, wallets, credits, ledgerVars,
                   walletVars>>

\* Variant of the catch block whose update writes the status alone.
MarkFailedWithoutMessage(p) ==
    /\ pp[p].pc = "catch"
    /\ transactions' = UpdateRow(pp[p].tx, [status |-> "FAILED"])
    /\ pp' = [pp EXCEPT ![p] = [@ EXCEPT !.pc = "release",
                                  !.outcome = "PaymentError"]]
    /\ UNCHANGED <<extVars, now, locks, paymentRecords, cb, invoices, payCalls, paidOk,
                   stkCount, wallets, credits, ledgerVars, walletVars>>

\* catch (error): transaction.update({ status: 'FAILED', errorMessage }) and
\* throw PaymentError; if that update raises, its error propagates instead.
MarkFailed(p) ==
    /\ pp[p].pc = "catch"
    /\ \/ /\ transactions' = UpdateRow(pp[p].tx,
                 [status |-> "FAILED", errorMessage |-> pp[p].error])
          /\ pp' = [pp EXCEPT ![p] = [@ EXCEPT !.pc = "release",
                                        !.outcome = "PaymentError"]]
       \/ /\ transactions' = transactions
          /\ pp' = [pp EXCEPT ![p] = [@ EXCEPT !.pc = "release",
                                        !.outcome = "Error"]]
    /\ UNCHANGED <<extVars, now, locks, paymentRecords, cb, invoices, payCalls, paidOk,
                   stkCount, wallets, credits, ledgerVars, walletVars>>

\* Variant of the finally block that returns without lock.release.
LockReleaseOmitted(p) ==
    /\ pp[p].pc = "release"
    /\ pp' = [pp EXCEPT ![p] = [@ EXCEPT !.pc = "done", !.lockKey = NoKey,
                                  !.acquired = FALSE, !.error = NoMessage]]
    /\ UNCHANGED <<extVars, now, locks, transactions, paymentRecords, cb, invoices,
                   payCalls, paidOk, stkCount, wallets, credits, ledgerVars,
                   walletVars>>

\* finally: lock.release(lockKey) deletes the entry if this call still holds it.
LockRelease(p) ==
    /\ pp[p].pc = "release"
    /\ locks' = LockStoreDelete(pp[p].lockKey, p)
    /\ pp' = [pp EXCEPT ![p] = [@ EXCEPT !.pc = "done", !.lockKey = NoKey,
                                  !.acquired = FALSE, !.error = NoMessage]]
    /\ UNCHANGED <<extVars, now, transactions, paymentRecords, cb, invoices, payCalls,
                   paidOk, stkCount, wallets, credits, ledgerVars,
                   walletVars>>

\* ------------------------------------------------- PaymentProcessor: complete
ResultDescOf(code) == IF code = 0 THEN "Success" ELSE "Failed"

\* Variant without the `if (!transaction)` return: a lookup that matches no row
\* goes on with some other row.
CallbackFindAnyRow(c, code, id) ==
    /\ cb[c].pc = "idle"
    /\ \A d \in Cbs : d < c => cb[d].pc # "idle"
    /\ \E t \in TxIds :
          cb' = [cb EXCEPT ![c] = [@ EXCEPT
                    !.pc = IF code = 0 THEN "pay" ELSE "fail",
                    !.ResultCode = code, !.tx = t,
                    !.seenStatus = transactions[t].status,
                    !.invoice = transactions[t].lightningInvoice]]
    /\ UNCHANGED <<extVars, now, locks, transactions, paymentRecords, pp, invoices,
                   payCalls, paidOk, stkCount, wallets, credits,
                   ledgerVars, walletVars>>

\* handleMPESACallback entry and Transaction.findOne by CheckoutRequestID: the
\* handler keeps the row as read (the instance); no row means log and return.
\* There is no check of the status that was read.  The query is outside the
\* try block: if it raises, the handler raises.
CallbackFind(c, code, id) ==
    /\ cb[c].pc = "idle"
    /\ \A d \in Cbs : d < c => cb[d].pc # "idle"
    /\ \/ /\ FindByCheckout(id) = {}
          /\ cb' = [cb EXCEPT ![c] = DoneCB("returned")]
          /\ unmatched' = unmatched \cup {id}
       \/ /\ cb' = [cb EXCEPT ![c] = DoneCB("raised")]
          /\ unmatched' = unmatched
       \/ /\ \E t \in FindByCheckout(id) :
                cb' = [cb EXCEPT ![c] = [@ EXCEPT
                          !.pc = IF code = 0 THEN "pay" ELSE "fail",
                          !.ResultCode = code, !.tx = t,
                          !.seenStatus = transactions[t].status,
                          !.invoice = transactions[t].lightningInvoice]]
          /\ unmatched' = unmatched
    /\ UNCHANGED <<createVars, tokenVars, settingsVars, now, locks, transactions, paymentRecords, pp, invoices,
                   payCalls, paidOk, stkCount, wallets, credits,
                   ledgerVars, walletVars>>

\* ResultCode === 0: lightningService.payInvoice(transaction.lightningInvoice).
\* The node settles an invoice at most once; any call may fail.
PayInvoice(c) ==
    /\ cb[c].pc = "pay"
    /\ payCalls' = [payCalls EXCEPT ![cb[c].invoice] = @ + 1]
    /\ \/ /\ paidOk[cb[c].invoice] = 0
          /\ paidOk' = [paidOk EXCEPT ![cb[c].invoice] = @ + 1]
          /\ cb' = [cb EXCEPT ![c] = [@ EXCEPT !.pc = "complete"]]
       \/ /\ paidOk' = paidOk
          /\ cb' = [cb EXCEPT ![c] = [@ EXCEPT !.pc = "catch",
                                        !.error = "Lightning error"]]
    /\ UNCHANGED <<extVars, now, locks, transactions, paymentRecords, pp, invoices,
                   stkCount, wallets, credits, ledgerVars,
                   walletVars>>

\* Variant whose update writes the status without completedAt.
MarkCompletedWithoutTimestamp(c) ==
    /\ cb[c].pc = "complete"
    /\ transactions' = UpdateRow(cb[c].tx, [status |-> "COMPLETED"])
    /\ cb' = [cb EXCEPT ![c] = DoneCB("returned")]
    /\ UNCHANGED <<extVars, now, locks, paymentRecords, pp, invoices, payCalls, paidOk,
                   stkCount, wallets, credits, ledgerVars, walletVars>>

\* transaction.update({ status: 'COMPLETED', completedAt: new Date() }).
MarkCompleted(c) ==
    /\ cb[c].pc = "complete"
    /\ \/ \E ts \in now..MaxClock :
             /\ now' = ts
             /\ transactions' = UpdateRow(cb[c].tx,
                    [status |-> "COMPLETED", completedAt |-> ts])
             /\ cb' = [cb EXCEPT ![c] = DoneCB("returned")]
       \/ /\ now' = now
          /\ transactions' = transactions
          /\ cb' = [cb EXCEPT ![c] = [@ EXCEPT !.pc = "catch",
                                        !.error = "Database error"]]
    /\ UNCHANGED <<extVars, locks, paymentRecords, pp, invoices, payCalls, paidOk,
                   stkCount, wallets, credits, ledgerVars, walletVars>>

\* Variant whose update writes the status without the callback's ResultDesc.
MarkCallbackFailedWithoutDesc(c) ==
    /\ cb[c].pc = "fail"
    /\ transactions' = UpdateRow(cb[c].tx, [status |-> "FAILED"])
    /\ cb' = [cb EXCEPT ![c] = DoneCB("returned")]
    /\ UNCHANGED <<extVars, now, locks, paymentRecords, pp, invoices, payCalls, paidOk,
                   stkCount, wallets, credits, ledgerVars, walletVars>>

\* ResultCode !== 0: transaction.update({ status: 'FAILED', errorMessage:
\* ResultDesc }).
MarkCallbackFailed(c) ==
    /\ cb[c].pc = "fail"
    /\ \/ /\ transactions' = UpdateRow(cb[c].tx,
                 [status |-> "FAILED", errorMessage |-> ResultDescOf(cb[c].ResultCode)])
          /\ cb' = [cb EXCEPT ![c] = DoneCB("returned")]
       \/ /\ transactions' = transactions
          /\ cb' = [cb EXCEPT ![c] = [@ EXCEPT !.pc = "catch",
                                        !.error = "Database error"]]
    /\ UNCHANGED <<extVars, now, locks, paymentRecords, pp, invoices, payCalls, paidOk,
                   stkCount, wallets, credits, ledgerVars, walletVars>>

\* catch (error): transaction.update({ status: 'FAILED', errorMessage:
\* error.message }); an error of this update leaves the handler as a raise.
CallbackCatch(c) ==
    /\ cb[c].pc = "catch"
    /\ \/ /\ transactions' = UpdateRow(cb[c].tx,
                 [status |-> "FAILED", errorMessage |-> cb[c].error])
          /\ cb' = [cb EXCEPT ![c] = DoneCB("returned")]
       \/ /\ transactions' = transactions
          /\ cb' = [cb EXCEPT ![c] = DoneCB("raised")]
    /\ UNCHANGED <<extVars, now, locks, paymentRecords, pp, invoices, payCalls, paidOk,
                   stkCount, wallets, credits, ledgerVars, walletVars>>

\* ------------------------------------------------ PaymentService and routes
\* createPayment up to its INSERT INTO transactions: field, amount and method
\* validation, the lookup of the active user, then the row in status 'pending'.
CreatePayment(r, u, a, m, hasField) ==
    /\ cp[r].pc = "idle"
    /\ \A q \in Creates : q < r => cp[q].pc # "idle"
    /\ IF a <= 0 \/ m \notin validMethods
       THEN /\ cp' = [cp EXCEPT ![r] = DoneCP("ValidationError")]
            /\ transactions' = transactions
       ELSE IF u \notin Users
       THEN /\ cp' = [cp EXCEPT ![r] = DoneCP("NotFoundError")]
            /\ transactions' = transactions
       ELSE /\ Len(transactions) < MaxTx
            /\ transactions' = Append(transactions, NewRow(u, a, "pending"))
            /\ cp' = [cp EXCEPT ![r] = [@ EXCEPT !.pc = "record",
                         !.hasField = hasField, !.tx = Len(transactions) + 1]]
    /\ UNCHANGED <<extVars, orchVars, paymentRecords, wallets, credits, sr, cr, walletVars>>

\* createMpesaPayment / createBitcoinPayment / createLightningPayment: a
\* ValidationError when the method's own field is missing, else the INSERT of
\* the method-specific record.
CreatePaymentRecord(r) ==
    /\ cp[r].pc = "record"
    /\ IF cp[r].hasField
       THEN /\ paymentRecords' = paymentRecords \cup {cp[r].tx}
            /\ cp' = [cp EXCEPT ![r] = [@ EXCEPT !.pc = "invalidate"]]
       ELSE /\ paymentRecords' = paymentRecords
            /\ cp' = [cp EXCEPT ![r] = DoneCP("ValidationError")]
    /\ UNCHANGED <<extVars, orchVars, transactions, wallets, credits, sr, cr, walletVars>>

\* cache.del(`user_balance:${userId}`) and the return of createPayment.
CreatePaymentInvalidate(r) ==
    /\ cp[r].pc = "invalidate"
    /\ cache' \in CacheDelResults(transactions[cp[r].tx].userId)
    /\ cp' = [cp EXCEPT ![r] = DoneCP("success")]
    /\ UNCHANGED <<extVars, orchVars, transactions, paymentRecords, wallets, credits, sr,
                   cr, wop, auditLogs>>

\* PUT /:transactionId/status: getTransaction, the ownership check, and the
\* validStatuses check of updateTransactionStatus.
StatusRequest(r, u, isMerchant, t, status) ==
    /\ sr[r].pc = "idle"
    /\ \A q \in StatusReqs : q < r => sr[q].pc # "idle"
    /\ sr' = [sr EXCEPT ![r] =
                IF ~RowExists(t) THEN DoneSR("NotFoundError")
                ELSE IF transactions[t].userId # u /\ ~isMerchant
                     THEN DoneSR("forbidden")
                ELSE IF status \notin validStatuses THEN DoneSR("ValidationError")
                ELSE [@ EXCEPT !.pc = "update", !.tx = t, !.status = status]]
    /\ UNCHANGED <<extVars, orchVars, transactions, paymentRecords, wallets, credits, cp,
                   cr, walletVars>>

\* updateTransactionStatus: UPDATE transactions SET status = $1 WHERE id = $3.
\* The statement has no condition on the row's current status.
StatusUpdate(r) ==
    /\ sr[r].pc = "update"
    /\ transactions' = UpdateRow(sr[r].tx, [status |-> sr[r].status])
    /\ sr' = [sr EXCEPT ![r] = [@ EXCEPT !.pc =
                IF sr[r].status = "completed" THEN "credit" ELSE "invalidate"]]
    /\ UNCHANGED <<extVars, orchVars, paymentRecords, wallets, credits, cp, cr, walletVars>>

\* status === 'completed': updateUserBalance(user_id, amount, 'credit'), one
\* UPDATE wallets SET balance = balance + $1.
UpdateUserBalance(r) ==
    /\ sr[r].pc = "credit"
    /\ LET t == sr[r].tx
           u == transactions[t].userId
       IN /\ wallets' = [wallets EXCEPT ![u] = @ + transactions[t].amount]
          /\ credits' = [credits EXCEPT ![t] = @ + 1]
    /\ sr' = [sr EXCEPT ![r] = [@ EXCEPT !.pc = "invalidate"]]
    /\ UNCHANGED <<extVars, orchVars, transactions, paymentRecords, cp, cr, walletVars>>

\* cache.del(`user_balance:${transaction.user_id}`) and the return.
StatusInvalidate(r) ==
    /\ sr[r].pc = "invalidate"
    /\ cache' \in CacheDelResults(transactions[sr[r].tx].userId)
    /\ sr' = [sr EXCEPT ![r] = DoneSR("success")]
    /\ UNCHANGED <<extVars, orchVars, transactions, paymentRecords, wallets, credits, cp,
                   cr, wop, auditLogs>>

\* POST /:transactionId/cancel: getTransaction, the ownership check and the
\* check that the status read is 'pending'.
CancelRequest(r, u, t) ==
    /\ cr[r].pc = "idle"
    /\ \A q \in Cancels : q < r => cr[q].pc # "idle"
    /\ cr' = [cr EXCEPT ![r] =
                IF ~RowExists(t) THEN DoneCR("NotFoundError")
                ELSE IF transactions[t].userId # u THEN DoneCR("forbidden")
                ELSE IF transactions[t].status # "pending"
                     THEN DoneCR("validationError")
                ELSE [@ EXCEPT !.pc = "update", !.tx = t]]
    /\ UNCHANGED <<extVars, orchVars, transactions, paymentRecords, wallets, credits, cp,
                   sr, walletVars>>

\* updateTransactionStatus(transactionId, 'cancelled', ...): the UPDATE, issued
\* after the read of CancelRequest returned.
CancelUpdate(r) ==
    /\ cr[r].pc = "update"
    /\ transactions' = UpdateRow(cr[r].tx, [status |-> "cancelled"])
    /\ cr' = [cr EXCEPT ![r] = [@ EXCEPT !.pc = "invalidate"]]
    /\ UNCHANGED <<extVars, orchVars, paymentRecords, wallets, credits, cp, sr, walletVars>>

\* cache.del inside updateTransactionStatus and the route's success response.
CancelInvalidate(r) ==
    /\ cr[r].pc = "invalidate"
    /\ cache' \in CacheDelResults(transactions[cr[r].tx].userId)
    /\ cr' = [cr EXCEPT ![r] = DoneCR("success")]
    /\ UNCHANGED <<extVars, orchVars, transactions, paymentRecords, wallets, credits, cp,
                   sr, wop, auditLogs>>

\* ------------------------------------------------------------ WalletService
\* Variant that lets a credit of 0 through to the UPDATE.
CreditWalletZeroAccepted(o, u, a) ==
    /\ wop[o].pc = "idle"
    /\ \A q \in Ops : q < o => wop[q].pc # "idle"
    /\ wop' = [wop EXCEPT ![o] =
                 IF a < 0 THEN DoneWOP("credit", u, a, "ValidationError")
                 ELSE [@ EXCEPT !.pc = "update", !.op = "credit", !.userId = u,
                                !.amount = a]]
    /\ UNCHANGED <<extVars, orchVars, transactions, paymentRecords, wallets, credits,
                   ledgerVars, cache, auditLogs>>

\* creditWallet entry: a non-positive amount is rejected before any query.
CreditWallet(o, u, a) ==
    /\ wop[o].pc = "idle"
    /\ \A q \in Ops : q < o => wop[q].pc # "idle"
    /\ wop' = [wop EXCEPT ![o] =
                 IF a <= 0 THEN DoneWOP("credit", u, a, "ValidationError")
                 ELSE [@ EXCEPT !.pc = "update", !.op = "credit", !.userId = u,
                                !.amount = a]]
    /\ UNCHANGED <<extVars, orchVars, transactions, paymentRecords, wallets, credits,
                   ledgerVars, cache, auditLogs>>

\* getWalletBalance called on its own: cache.get, and on a hit the return of
\* the cached balance (newBalance holds the balance returned).
GetWalletBalance(o, u) ==
    /\ wop[o].pc = "idle"
    /\ \A q \in Ops : q < o => wop[q].pc # "idle"
    /\ \E cached \in CacheGetResults(u) :
          wop' = [wop EXCEPT ![o] =
                    IF cached # NoCache
                    THEN [@ EXCEPT !.pc = "done", !.op = "balance", !.userId = u,
                                   !.outcome = "success", !.newBalance = cached]
                    ELSE [@ EXCEPT !.pc = "select", !.op = "balance", !.userId = u]]
    /\ UNCHANGED <<extVars, orchVars, transactions, paymentRecords, wallets, credits,
                   ledgerVars, cache, auditLogs>>

\* debitWallet entry, then getWalletBalance's cache.get: a hit is returned as
\* the current balance, a miss goes on to the SELECT.
DebitWallet(o, u, a) ==
    /\ wop[o].pc = "idle"
    /\ \A q \in Ops : q < o => wop[q].pc # "idle"
    /\ \E cached \in CacheGetResults(u) :
          wop' = [wop EXCEPT ![o] =
                    IF a <= 0 THEN DoneWOP("debit", u, a, "ValidationError")
                    ELSE IF cached # NoCache
                         THEN [@ EXCEPT !.pc = "update", !.op = "debit",
                                        !.userId = u, !.amount = a, !.read = cached]
                    ELSE [@ EXCEPT !.pc = "select", !.op = "debit", !.userId = u,
                                   !.amount = a]]
    /\ UNCHANGED <<extVars, orchVars, transactions, paymentRecords, wallets, credits,
                   ledgerVars, cache, auditLogs>>

\* getWalletBalance on a miss: SELECT ... FROM wallets.
BalanceSelect(o) ==
    /\ wop[o].pc = "select"
    /\ wop' = [wop EXCEPT ![o] = [@ EXCEPT !.pc = "cacheSet",
                                    !.read = wallets[wop[o].userId]]]
    /\ UNCHANGED <<extVars, orchVars, transactions, paymentRecords, wallets, credits,
                   ledgerVars, cache, auditLogs>>

\* getWalletBalance on a miss: cache.set of the balance just read (300 s),
\* then the return: to the caller, or into debitWallet's balance check.
BalanceCacheSet(o) ==
    /\ wop[o].pc = "cacheSet"
    /\ cache' \in CacheSetResults(wop[o].userId, wop[o].read)
    /\ wop' = [wop EXCEPT ![o] =
                 IF wop[o].op = "balance"
                 THEN [@ EXCEPT !.pc = "done", !.outcome = "success",
                                !.newBalance = wop[o].read, !.read = 0]
                 ELSE [@ EXCEPT !.pc = "update"]]
    /\ UNCHANGED <<extVars, orchVars, transactions, paymentRecords, wallets, credits,
                   ledgerVars, auditLogs>>

\* credit: UPDATE wallets SET balance = balance + $1 RETURNING *.  debit: the
\* check currentBalance.balance < amount on the balance read earlier, then
\* UPDATE wallets SET balance = balance - $1 RETURNING * with no condition on
\* the row.
BalanceUpdate(o) ==
    /\ wop[o].pc = "update"
    /\ LET u == wop[o].userId
           a == wop[o].amount
       IN IF wop[o].op = "credit"
          THEN /\ wallets' = [wallets EXCEPT ![u] = @ + a]
               /\ wop' = [wop EXCEPT ![o] = [@ EXCEPT !.pc = "invalidate",
                                               !.newBalance = wallets[u] + a]]
          ELSE IF wop[o].read < a
          THEN /\ wallets' = wallets
               /\ wop' = [wop EXCEPT ![o] = EndWOP(o, "ValidationError")]
          ELSE /\ wallets' = [wallets EXCEPT ![u] = @ - a]
               /\ wop' = [wop EXCEPT ![o] = [@ EXCEPT !.pc = "invalidate",
                                               !.newBalance = wallets[u] - a]]
    /\ UNCHANGED <<extVars, orchVars, transactions, paymentRecords, credits, ledgerVars,
                   cache, auditLogs>>

\* cache.del(`user_balance:${userId}`) after the UPDATE.
BalanceInvalidate(o) ==
    /\ wop[o].pc = "invalidate"
    /\ cache' \in CacheDelResults(wop[o].userId)
    /\ wop' = [wop EXCEPT ![o] = [@ EXCEPT !.pc = "audit"]]
    /\ UNCHANGED <<extVars, orchVars, transactions, paymentRecords, wallets, credits,
                   ledgerVars, auditLogs>>

\* The action column of an audit row: `wallet_${operation}`.
AuditAction(op) == IF op = "credit" THEN "wallet_credit" ELSE "wallet_debit"

\* Variant that passes a failed audit insert on to the caller.
LogBalanceOperationRethrows(o) ==
    /\ wop[o].pc = "audit"
    /\ \/ /\ auditLogs' = Append(auditLogs, <<wop[o].userId, AuditAction(wop[o].op)>>)
          /\ wop' = [wop EXCEPT ![o] = EndWOP(o, "success")]
       \/ /\ auditLogs' = auditLogs
          /\ wop' = [wop EXCEPT ![o] = EndWOP(o, "DatabaseError")]
    /\ UNCHANGED <<extVars, orchVars, transactions, paymentRecords, wallets, credits,
                   ledgerVars, cache>>

\* logBalanceOperation: INSERT INTO audit_logs; a failure of the insert is
\* logged and swallowed.  Then the operation returns its result
\* (previousBalance is newBalance -/+ amount).
LogBalanceOperation(o) ==
    /\ wop[o].pc = "audit"
    /\ \/ auditLogs' = Append(auditLogs, <<wop[o].userId, AuditAction(wop[o].op)>>)
       \/ auditLogs' = auditLogs
    /\ wop' = [wop EXCEPT ![o] = EndWOP(o, "success")]
    /\ UNCHANGED <<extVars, orchVars, transactions, paymentRecords, wallets, credits,
                   ledgerVars, cache>>

\* ------------------------------------------------ WalletService.createWallet
\* createWallet entry and SELECT ... FROM users WHERE id = $1 AND is_active.
CreateWallet(w, u, vt) ==
    /\ cw[w].pc = "idle"
    /\ \A q \in WalletCreates : q < w => cw[q].pc # "idle"
    /\ cw' = [cw EXCEPT ![w] =
                IF u \notin Users
                THEN [@ EXCEPT !.pc = "done", !.outcome = "User not found or inactive"]
                ELSE [@ EXCEPT !.pc = "check", !.userId = u, !.validType = vt]]
    /\ UNCHANGED <<orchVars, transactions, paymentRecords, wallets, credits,
                   ledgerVars, walletVars, walletRows, tokenVars, settingsVars,
                   gatewayVars>>

\* SELECT id FROM wallets WHERE user_id = $1, then the wallet type validation.
CheckExistingWallet(w) ==
    /\ cw[w].pc = "check"
    /\ cw' = [cw EXCEPT ![w] =
                IF walletRows[cw[w].userId] > 0
                THEN [@ EXCEPT !.pc = "done", !.outcome = "User already has a wallet"]
                ELSE IF ~cw[w].validType
                THEN [@ EXCEPT !.pc = "done", !.outcome = "Invalid wallet type"]
                ELSE [@ EXCEPT !.pc = "insert"]]
    /\ UNCHANGED <<orchVars, transactions, paymentRecords, wallets, credits,
                   ledgerVars, walletVars, walletRows, tokenVars, settingsVars,
                   gatewayVars>>

\* INSERT INTO wallets (...) VALUES (..., 0, 0, 0) RETURNING *: a new row with
\* balance 0, or the statement raises (the store is down, or it rejects the
\* row) and the catch block rethrows the store's error.
InsertWallet(w) ==
    /\ cw[w].pc = "insert"
    /\ \/ /\ walletRows' = [walletRows EXCEPT ![cw[w].userId] = @ + 1]
          /\ cw' = [cw EXCEPT ![w] = [@ EXCEPT !.pc = "updateUser"]]
       \/ /\ walletRows' = walletRows
          /\ cw' = [cw EXCEPT ![w] = [@ EXCEPT !.pc = "done",
                                        !.outcome = "DatabaseError"]]
    /\ UNCHANGED <<orchVars, transactions, paymentRecords, wallets, credits,
                   ledgerVars, walletVars, tokenVars, settingsVars, gatewayVars>>

\* UPDATE users SET wallet_type = $1, lightning_address = $2, then the return.
\* The two statements share no database transaction: when the UPDATE raises,
\* the inserted row stays and the catch block rethrows.
UpdateUserWallet(w) ==
    /\ cw[w].pc = "updateUser"
    /\ \E out \in {"success", "DatabaseError"} :
          cw' = [cw EXCEPT ![w] = [@ EXCEPT !.pc = "done", !.outcome = out]]
    /\ UNCHANGED <<orchVars, transactions, paymentRecords, wallets, credits,
                   ledgerVars, walletVars, walletRows, tokenVars, settingsVars,
                   gatewayVars>>

\* ---------------------------------------- WalletService.updateWalletSettings
validWalletTypes == {"phoenix", "breez", "muun"}
\* COALESCE($1, column): the column keeps its value when no value is given.
Coalesce(given, none, current) == IF given = none THEN current ELSE given

\* updateWalletSettings entry: a wallet type that is given and is not one of
\* validWalletTypes is rejected before any query.
UpdateWalletSettings(c, u, type, address) ==
    /\ ws[c].pc = "idle"
    /\ \A q \in SettingsCalls : q < c => ws[q].pc # "idle"
    /\ ws' = [ws EXCEPT ![c] =
                IF type # "none" /\ type \notin validWalletTypes
                THEN [@ EXCEPT !.pc = "done", !.userId = u, !.walletType = type,
                               !.lightningAddress = address,
                               !.outcome = "ValidationError"]
                ELSE [@ EXCEPT !.pc = "updateWallet", !.userId = u,
                               !.walletType = type, !.lightningAddress = address]]
    /\ UNCHANGED <<orchVars, transactions, paymentRecords, wallets, credits,
                   ledgerVars, walletVars, createVars, tokenVars, settings,
                   gatewayVars>>

\* UPDATE wallets SET wallet_type = COALESCE($1, wallet_type),
\* lightning_address = COALESCE($2, lightning_address), updated_at = ...: the
\* balance columns are not among the columns set.  A raise is rethrown.
SettingsUpdateWallet(c) ==
    /\ ws[c].pc = "updateWallet"
    /\ \/ /\ settings' = [settings EXCEPT ![ws[c].userId] = [@ EXCEPT
                 !.walletType = Coalesce(ws[c].walletType, "none", @),
                 !.lightningAddress = Coalesce(ws[c].lightningAddress, NoAddress, @)]]
          /\ ws' = [ws EXCEPT ![c] = [@ EXCEPT !.pc =
                       IF ws[c].lightningAddress # NoAddress
                       THEN "updateUser" ELSE "invalidate"]]
       \/ /\ settings' = settings
          /\ ws' = [ws EXCEPT ![c] = [@ EXCEPT !.pc = "done",
                                        !.outcome = "DatabaseError"]]
    /\ UNCHANGED <<orchVars, transactions, paymentRecords, wallets, credits,
                   ledgerVars, walletVars, createVars, tokenVars, gatewayVars>>

\* if (lightningAddress): UPDATE users SET lightning_address = $1.
SettingsUpdateUser(c) ==
    /\ ws[c].pc = "updateUser"
    /\ \/ /\ settings' = [settings EXCEPT ![ws[c].userId] = [@ EXCEPT
                 !.userLightningAddress = ws[c].lightningAddress]]
          /\ ws' = [ws EXCEPT ![c] = [@ EXCEPT !.pc = "invalidate"]]
       \/ /\ settings' = settings
          /\ ws' = [ws EXCEPT ![c] = [@ EXCEPT !.pc = "done",
                                        !.outcome = "DatabaseError"]]
    /\ UNCHANGED <<orchVars, transactions, paymentRecords, wallets, credits,
                   ledgerVars, walletVars, createVars, tokenVars, gatewayVars>>

\* cache.del(`user_balance:${userId}`) and the return.
SettingsInvalidate(c) ==
    /\ ws[c].pc = "invalidate"
    /\ cache' \in CacheDelResults(ws[c].userId)
    /\ ws' = [ws EXCEPT ![c] = [@ EXCEPT !.pc = "done", !.outcome = "success"]]
    /\ UNCHANGED <<orchVars, transactions, paymentRecords, wallets, credits,
                   ledgerVars, wop, auditLogs, createVars, tokenVars, settings,
                   gatewayVars>>

\* ------------------------------------------------- TokenManager, MPESAService
\* tokenManager.js requires ioredis, util, errors and logger and binds no
\* `axios`: evaluating `axios.get` in fetchNewToken raises a ReferenceError
\* before any request is sent.
AxiosInScope == FALSE
\* TokenManager defines getValidToken, fetchNewToken, invalidateToken and
\* healthCheck; the `getToken` that MPESAService.getAccessToken calls is not
\* among them, so the call raises a TypeError.
TokenManagerMethods == {"getValidToken", "fetchNewToken", "invalidateToken",
                        "healthCheck"}

\* getValidToken entry and redis.get(TOKEN_KEY): a token is returned as it is,
\* null goes on to fetchNewToken, a Redis error is rethrown by the catch block
\* as MPESAError 'Authentication failed'.
GetValidToken(g) ==
    /\ tk[g].pc = "idle"
    /\ \A q \in TokenCalls : q < g => tk[q].pc # "idle"
    /\ \/ tk' = [tk EXCEPT ![g] =
                   IF tokenCache # NoToken
                   THEN [@ EXCEPT !.pc = "done", !.op = "getValidToken",
                                  !.token = tokenCache, !.outcome = "success"]
                   ELSE [@ EXCEPT !.pc = "fetch", !.op = "getValidToken",
                                  !.miss = TRUE]]
       \/ tk' = [tk EXCEPT ![g] = [@ EXCEPT !.pc = "done", !.op = "getValidToken",
                                      !.outcome = "Authentication failed"]]
    /\ UNCHANGED <<orchVars, transactions, paymentRecords, wallets, credits,
                   ledgerVars, walletVars, createVars, tokenCache, delCalls,
                   settingsVars, gatewayVars>>

\* Variant whose failed fetch leaves an entry under the token key.
FetchNewTokenCachesOnError(g) ==
    /\ tk[g].pc = "fetch"
    /\ tokenCache' = 1
    /\ tk' = [tk EXCEPT ![g] = [@ EXCEPT !.pc = "done",
                                  !.outcome = "Authentication failed"]]
    /\ UNCHANGED <<orchVars, transactions, paymentRecords, wallets, credits,
                   ledgerVars, walletVars, createVars, delCalls, settingsVars,
                   gatewayVars>>

\* fetchNewToken and the rest of getValidToken.  The request cannot be made
\* (AxiosInScope): the error is wrapped as 'Failed to fetch access token',
\* getValidToken's catch block rethrows it as 'Authentication failed', and
\* redis.setex is not reached.
FetchNewToken(g) ==
    /\ tk[g].pc = "fetch"
    /\ ~AxiosInScope
    /\ tokenCache' = tokenCache
    /\ tk' = [tk EXCEPT ![g] = [@ EXCEPT !.pc = "done",
                                  !.outcome = "Authentication failed"]]
    /\ UNCHANGED <<orchVars, transactions, paymentRecords, wallets, credits,
                   ledgerVars, walletVars, createVars, delCalls, settingsVars,
                   gatewayVars>>

\* invalidateToken: redis.del(TOKEN_KEY); a Redis error is logged and
\* swallowed, and the method returns either way.
InvalidateToken(g) ==
    /\ tk[g].pc = "idle"
    /\ \A q \in TokenCalls : q < g => tk[q].pc # "idle"
    /\ delCalls' = delCalls + 1
    /\ tokenCache' \in {NoToken, tokenCache}
    /\ tk' = [tk EXCEPT ![g] = [@ EXCEPT !.pc = "done", !.op = "invalidateToken",
                                  !.outcome = "returned"]]
    /\ UNCHANGED <<orchVars, transactions, paymentRecords, wallets, credits,
                   ledgerVars, walletVars, createVars, settingsVars, gatewayVars>>

\* MPESAService.initiateSTKPush entry and validateSTKPushParams: a
\* ValidationError is rethrown as it is.
MpesaInitiateSTKPush(g, valid) ==
    /\ tk[g].pc = "idle"
    /\ \A q \in TokenCalls : q < g => tk[q].pc # "idle"
    /\ tk' = [tk EXCEPT ![g] =
                IF valid
                THEN [@ EXCEPT !.pc = "token", !.op = "initiateSTKPush"]
                ELSE [@ EXCEPT !.pc = "done", !.op = "initiateSTKPush",
                               !.outcome = "ValidationError"]]
    /\ UNCHANGED <<orchVars, transactions, paymentRecords, wallets, credits,
                   ledgerVars, walletVars, createVars, tokenCache, delCalls,
                   settingsVars, gatewayVars>>

\* getAccessToken inside initiateSTKPush: tokenManager.getToken is not a
\* function, the TypeError is wrapped as MPESAError 'Authentication failed',
\* and initiateSTKPush's catch block rethrows that as MPESAError 'Failed to
\* process payment request'.  The catch block makes no call to the token
\* manager.
GetAccessToken(g) ==
    /\ tk[g].pc = "token"
    /\ "getToken" \notin TokenManagerMethods
    /\ tk' = [tk EXCEPT ![g] = [@ EXCEPT !.pc = "done",
                                  !.outcome = "Failed to process payment request"]]
    /\ UNCHANGED <<orchVars, transactions, paymentRecords, wallets, credits,
                   ledgerVars, walletVars, createVars, tokenCache, delCalls,
                   settingsVars, gatewayVars>>

\* --------------------------------------------------------- the orchestrator
ProcessPaymentNext(P) ==
    \/ \E p \in P, u \in Users, a \in Amounts : ProcessPayment(p, u, a)
    \/ \E p \in P : LockAcquire(p)
    \/ \E p \in P : CreateTransaction(p)
    \/ \E p \in P : GenerateInvoice(p)
    \/ \E p \in P : StoreInvoice(p)
    \/ \E p \in P : InitiateSTKPush(p)
    \/ \E p \in P : StoreCheckout(p)
    \/ \E p \in P : MarkFailed(p)
    \/ \E p \in P : LockRelease(p)

CallbackNext(C) ==
    \/ \E c \in C, code \in {0, 1}, id \in Procs : CallbackFind(c, code, id)
    \/ \E c \in C : PayInvoice(c)
    \/ \E c \in C : MarkCompleted(c)
    \/ \E c \in C : MarkCallbackFailed(c)
    \/ \E c \in C : CallbackCatch(c)

ServiceNext ==
    \/ \E r \in Creates, u \in 0..NumUsers, a \in 0..MaxAmount,
          m \in validMethods \cup {"card"}, f \in BOOLEAN :
          CreatePayment(r, u, a, m, f)
    \/ \E r \in Creates : CreatePaymentRecord(r)
    \/ \E r \in Creates : CreatePaymentInvalidate(r)
    \/ \E r \in StatusReqs, u \in Users, im \in BOOLEAN, t \in 1..MaxTx,
          s \in validStatuses \cup {"COMPLETED"} : StatusRequest(r, u, im, t, s)
    \/ \E r \in StatusReqs : StatusUpdate(r)
    \/ \E r \in StatusReqs : UpdateUserBalance(r)
    \/ \E r \in StatusReqs : StatusInvalidate(r)
    \/ \E r \in Cancels, u \in Users, t \in 1..MaxTx : CancelRequest(r, u, t)
    \/ \E r \in Cancels : CancelUpdate(r)
    \/ \E r \in Cancels : CancelInvalidate(r)

\* The orchestrator alone: concurrent initiations and callback deliveries.
Next == ProcessPaymentNext(Procs) \/ CallbackNext(Cbs)

Spec == Init /\ [][Next]_vars

\* The PaymentService operations behind the payments routes.
LedgerNext == ServiceNext

SpecLedger == Init /\ [][LedgerNext]_vars

\* The wallet ledger: concurrent creditWallet and debitWallet calls.
WalletNext ==
    \/ \E o \in Ops, u \in Users, a \in 0..MaxAmount : CreditWallet(o, u, a)
    \/ \E o \in Ops, u \in Users, a \in 0..MaxAmount : DebitWallet(o, u, a)
    \/ \E o \in Ops : BalanceSelect(o)
    \/ \E o \in Ops : BalanceCacheSet(o)
    \/ \E o \in Ops : BalanceUpdate(o)
    \/ \E o \in Ops : BalanceInvalidate(o)
    \/ \E o \in Ops : LogBalanceOperation(o)

SpecWallet == InitWallet /\ [][WalletNext]_vars

\* The wallet ledger with its calls issued one after another: a call starts
\* only when no other call is under way.
NoCallUnderWay == \A o \in Ops : wop[o].pc \in {"idle", "done"}

SequentialNext ==
    \/ NoCallUnderWay /\ \E o \in Ops, u \in Users, a \in 0..MaxAmount :
                            CreditWallet(o, u, a)
    \/ NoCallUnderWay /\ \E o \in Ops, u \in Users, a \in 0..MaxAmount :
                            DebitWallet(o, u, a)
    \/ \E o \in Ops : BalanceSelect(o)
    \/ \E o \in Ops : BalanceCacheSet(o)
    \/ \E o \in Ops : BalanceUpdate(o)
    \/ \E o \in Ops : BalanceInvalidate(o)
    \/ \E o \in Ops : LogBalanceOperation(o)

SpecSequential == InitLedger /\ [][SequentialNext]_vars

\* The wallet ledger's reads and mutations issued one after another.
CacheNext ==
    \/ NoCallUnderWay /\ \E o \in Ops, u \in Users : GetWalletBalance(o, u)
    \/ SequentialNext

SpecCache == InitWallet /\ [][CacheNext]_vars

\* Concurrent createWallet calls.
CreateWalletNext ==
    \/ \E w \in WalletCreates, u \in 0..NumUsers, vt \in BOOLEAN :
          CreateWallet(w, u, vt)
    \/ \E w \in WalletCreates : CheckExistingWallet(w)
    \/ \E w \in WalletCreates : InsertWallet(w)
    \/ \E w \in WalletCreates : UpdateUserWallet(w)

SpecCreateWallet == InitCreate /\ [][CreateWalletNext]_vars

\* Concurrent getWalletBalance, creditWallet and debitWallet calls.
BalanceNext ==
    \/ \E o \in Ops, u \in Users : GetWalletBalance(o, u)
    \/ WalletNext

SpecBalance == InitWallet /\ [][BalanceNext]_vars

\* updateWalletSettings calls and getWalletBalance calls, which fill the cache.
SettingsNext ==
    \/ \E c \in SettingsCalls, u \in Users, type \in {"none", "breez", "invalid"},
          address \in {NoAddress, "user@example.com"} :
          UpdateWalletSettings(c, u, type, address)
    \/ \E c \in SettingsCalls : SettingsUpdateWallet(c)
    \/ \E c \in SettingsCalls : SettingsUpdateUser(c)
    \/ \E c \in SettingsCalls : SettingsInvalidate(c)
    \/ \E o \in Ops, u \in Users : GetWalletBalance(o, u)
    \/ \E o \in Ops : BalanceSelect(o)
    \/ \E o \in Ops : BalanceCacheSet(o)

SpecSettings == InitWallet /\ [][SettingsNext]_vars

\* The token manager and the mobile-money service that uses it.
TokenNext ==
    \/ \E g \in TokenCalls : GetValidToken(g)
    \/ \E g \in TokenCalls : FetchNewToken(g)
    \/ \E g \in TokenCalls : InvalidateToken(g)
    \/ \E g \in TokenCalls, valid \in BOOLEAN : MpesaInitiateSTKPush(g, valid)
    \/ \E g \in TokenCalls : GetAccessToken(g)

SpecToken == Init /\ [][TokenNext]_vars

\* ================================================================== claims
RECURSIVE SumCompleted(_, _)
\* Sum of the amounts of user u's transactions with id <= n in status completed.
SumCompleted(u, n) ==
    IF n = 0 THEN 0
    ELSE SumCompleted(u, n - 1)
         + (IF transactions[n].userId = u /\ IsCompleted(transactions[n].status)
            THEN transactions[n].amount ELSE 0)

Quiescent ==
    /\ \A p \in Procs : pp[p].pc \in {"idle", "done"}
    /\ \A c \in Cbs : cb[c].pc \in {"idle", "done"}
    /\ \A r \in Creates : cp[r].pc \in {"idle", "done"}
    /\ \A r \in StatusReqs : sr[r].pc \in {"idle", "done"}
    /\ \A r \in Cancels : cr[r].pc \in {"idle", "done"}
    /\ \A o \in Ops : wop[o].pc \in {"idle", "done"}

\* C1: every wallet's balance is >= 0 in every reachable state, under every
\* interleaving of creditWallet and debitWallet calls.
C1_BalanceNonNegative == \A u \in Users : wallets[u] >= 0

\* C2: a callback delivered for a Transaction that is already in a terminal
\* status makes no payInvoice call (so payInvoice is attempted at most once per
\* Transaction over a sequence of deliveries).
C2_NoPaymentAttemptOnTerminal ==
    [][\A c \in Cbs :
          (cb[c].pc = "pay" /\ cb'[c].pc # "pay") => ~IsTerminal(cb[c].seenStatus)]_vars

\* C3: in every quiescent state each wallet balance equals the initial balance
\* (0) plus the amounts of the owner's completed transactions, and a
\* transaction is in status completed exactly when its amount was credited once.
C3_BalanceMatchesCompleted ==
    Quiescent =>
        /\ \A u \in Users : wallets[u] = SumCompleted(u, Len(transactions))
        /\ \A t \in TxIds : IsCompleted(transactions[t].status) <=> credits[t] = 1

\* C4: of the handlers of a success callback that read the same Transaction in
\* status PROCESSING, only the first calls payInvoice, and such a handler
\* writes a terminal status only onto a row that is not terminal yet.
C4_ConcurrentDeliveriesPayOnce ==
    [][\A c \in Cbs :
          (cb[c].ResultCode = 0 /\ cb[c].seenStatus = "PROCESSING") =>
             /\ (cb[c].pc = "pay" /\ cb'[c].pc # "pay")
                   => payCalls[cb[c].invoice] = 0
             /\ (cb[c].pc \in {"complete", "catch"} /\ transactions' # transactions)
                   => ~IsTerminal(transactions[cb[c].tx].status)]_vars

\* C5: the wallet is credited with a transaction's amount at most once, however
\* often the transition to completed is requested.
C5_CreditedAtMostOnce == \A t \in TxIds : credits[t] <= 1

\* C6: a Transaction in status PROCESSING has a Lightning invoice with its
\* payment hash and a mobile-money checkout id.
C6_ProcessingHasBothRails ==
    \A t \in TxIds :
        IsProcessing(transactions[t].status) =>
            /\ transactions[t].lightningInvoice # NULL
            /\ transactions[t].paymentHash # NULL
            /\ transactions[t].mpesaCheckoutRequestId # NULL

\* C7: a Transaction is in status COMPLETED only if a payInvoice call for its
\* stored invoice has succeeded.
C7_CompletedOnlyAfterPayment ==
    \A t \in TxIds :
        IsCompleted(transactions[t].status) =>
            /\ transactions[t].lightningInvoice # NULL
            /\ paidOk[transactions[t].lightningInvoice] >= 1

\* C8: every write of CANCELLED, by the cancel route or by the status route,
\* finds the row in status PENDING, and a cancel request that reads another
\* status is rejected with a validation failure and changes nothing.
C8_CancelledOnlyFromPending ==
    [][(\A r \in Cancels :
           /\ (cr[r].pc = "update" /\ cr'[r].pc # "update")
                 => IsPending(transactions[cr[r].tx].status)
           /\ (cr[r].pc = "idle" /\ cr'[r].pc = "done"
                  /\ cr'[r].outcome \notin {"NotFoundError", "forbidden"})
                 => (cr'[r].outcome = "validationError"
                        /\ transactions' = transactions))
       /\ (\A q \in StatusReqs :
              (sr[q].pc = "update" /\ sr'[q].pc # "update"
                 /\ sr[q].status = "cancelled")
                 => IsPending(transactions[sr[q].tx].status))]_vars

\* C9: a callback handler that found its Transaction in a terminal status
\* leaves the row's status, error message and completed-at as they are.
C9_TerminalAbsorbing ==
    [][\A c \in Cbs :
          (cb[c].tx # NULL /\ IsTerminal(cb[c].seenStatus) /\ cb'[c] # cb[c]) =>
             LET t == cb[c].tx
             IN /\ transactions'[t].status = transactions[t].status
                /\ transactions'[t].errorMessage = transactions[t].errorMessage
                /\ transactions'[t].completedAt = transactions[t].completedAt]_vars

\* C10: while a processPayment call of a user holds the lock it acquired, no
\* other processPayment call of the same user acquires the lock or creates a
\* Transaction.
Holding(p) ==
    /\ pp[p].acquired
    /\ pp[p].pc \in {"create", "invoice", "storeInvoice", "stk", "storeStk",
                     "catch", "release"}

C10_InitiationSerializedPerUser ==
    [][\A p, q \in Procs :
          (p # q /\ Holding(p) /\ pp[q].userId = pp[p].userId) =>
             /\ ~(~pp[q].acquired /\ pp'[q].acquired)
             /\ ~(pp[q].tx = NULL /\ pp'[q].tx # NULL)]_vars

\* C11: a processPayment call whose lock.acquire did not succeed (it returned
\* false or raised) fails fast: it ends with an error and has created no
\* Transaction, requested no invoice and requested no collection.
InFlight(p) ==
    pp[p].pc \in {"create", "invoice", "storeInvoice", "stk", "storeStk",
                  "catch", "release"}

C11_NoLockFailsFast ==
    \A p \in Procs :
        (InFlight(p) /\ ~pp[p].acquired) =>
            /\ pp[p].tx = NULL
            /\ pp[p].invoice = NULL
            /\ pp[p].checkout = NULL
            /\ pp[p].pc = "release" => pp[p].outcome = "Error"

Returning(p) ==
    pp[p].acquired /\ pp[p].pc = "release" /\ pp[p].outcome = "success"

StoredAsReturned(p) ==
    /\ pp[p].tx # NULL /\ pp[p].invoice # NULL /\ pp[p].checkout # NULL
    /\ transactions[pp[p].tx].lightningInvoice = pp[p].invoice
    /\ transactions[pp[p].tx].mpesaCheckoutRequestId = pp[p].checkout

\* C13 as stated: when a call that acquired the lock and got both rails'
\* answers returns to its caller, its Transaction is in status PROCESSING and
\* holds exactly the returned invoice and CheckoutRequestID.
C13_AtReturnProcessing ==
    \A p \in Procs :
        Returning(p) =>
            StoredAsReturned(p) /\ transactions[pp[p].tx].status = "PROCESSING"

\* C13 amended: the last update of such a call leaves its Transaction in
\* PROCESSING with exactly the returned invoice and CheckoutRequestID; when the
\* caller gets the result, after the lock release, those two values are still
\* stored and the status is PROCESSING or what a callback for that
\* CheckoutRequestID has made of it since (COMPLETED or FAILED).
C13_ReturnsProcessing ==
    [][\A p \in Procs :
          /\ (pp[p].acquired /\ pp[p].pc = "storeStk" /\ pp'[p].pc = "release")
                => /\ Returning(p)'
                   /\ StoredAsReturned(p)'
                   /\ transactions'[pp[p].tx].status = "PROCESSING"
                   /\ pp'[p].tx = pp[p].tx
                   /\ pp'[p].invoice = pp[p].invoice
                   /\ pp'[p].checkout = pp[p].checkout
          /\ (Returning(p) /\ pp'[p].pc = "done")
                => /\ StoredAsReturned(p)
                   /\ transactions[pp[p].tx].status
                         \in {"PROCESSING", "COMPLETED", "FAILED"}
                   /\ pp'[p].tx = pp[p].tx
                   /\ pp'[p].invoice = pp[p].invoice
                   /\ pp'[p].checkout = pp[p].checkout]_vars

\* A call about to hand its result to the caller, Transaction in PROCESSING.
C13_Witness ==
    \E p \in Procs :
        /\ Returning(p)
        /\ StoredAsReturned(p)
        /\ transactions[pp[p].tx].status = "PROCESSING"

\* The messages of a failed generateInvoice and of a failed initiateSTKPush.
RailErrors == {"Lightning error", "M-PESA error"}

\* The call's own Transaction has not been in PROCESSING: it gets its
\* CheckoutRequestID, and with it the status, only in the call's last update.
BeforeProcessing(p) ==
    (pp[p].tx # NULL /\ pp[p].pc \in {"invoice", "storeInvoice", "stk",
                                      "storeStk", "catch"})
        => /\ transactions[pp[p].tx].status = "PENDING"
           /\ transactions[pp[p].tx].mpesaCheckoutRequestId = NULL

SuccessOnProcessing(c) ==
    cb[c].tx # NULL /\ cb[c].ResultCode = 0 /\ cb[c].seenStatus = "PROCESSING"

\* The handler's payInvoice call is for the invoice stored on its Transaction.
PaysStoredInvoice(c) ==
    (cb[c].pc = "pay" /\ cb'[c].pc # "pay") =>
        /\ cb[c].invoice # NULL
        /\ cb[c].invoice = transactions[cb[c].tx].lightningInvoice
        /\ payCalls'[cb[c].invoice] = payCalls[cb[c].invoice] + 1

\* The handler's step after a successful payInvoice writes COMPLETED and the
\* completed-at time, both in that one step.
WritesCompleted(c) ==
    /\ transactions'[cb[c].tx].status = "COMPLETED"
    /\ transactions'[cb[c].tx].completedAt = now'
    /\ transactions'[cb[c].tx].completedAt # NULL
    /\ cb'[c].outcome = "returned"

FailureCallback(c) == cb[c].tx # NULL /\ cb[c].ResultCode # 0

\* No step of the handler is a payInvoice call.
MakesNoPayInvoiceCall(c) ==
    /\ cb[c].pc # "pay"
    /\ cb'[c] # cb[c] => (payCalls' = payCalls /\ paidOk' = paidOk)

\* The handler's first update writes FAILED and the callback's ResultDesc.
WritesFailedWithResultDesc(c) ==
    /\ transactions'[cb[c].tx].status = "FAILED"
    /\ transactions'[cb[c].tx].errorMessage = ResultDescOf(cb[c].ResultCode)
    /\ cb'[c].outcome = "returned"

C18_PayFailureMarksFailed ==
    [][\A c \in Cbs :
          (cb[c].tx # NULL /\ cb[c].ResultCode = 0) =>
             /\ (cb[c].pc = "pay" /\ cb'[c] # cb[c] /\ paidOk' = paidOk)
                   => /\ cb'[c].pc = "catch"
                      /\ cb'[c].error = "Lightning error"
                      /\ transactions' = transactions
             /\ (cb[c].pc = "catch" /\ cb[c].error = "Lightning error"
                    /\ cb'[c] # cb[c])
                   => /\ transactions'[cb[c].tx].status = "FAILED"
                      /\ transactions'[cb[c].tx].errorMessage = "Lightning error"
                      /\ cb'[c].outcome = "returned"]_vars

\* C19: a debitWallet call whose amount exceeds the balance the wallet holds
\* when the call comes to its check is rejected with the validation error: it
\* issues no UPDATE, so the stored balance stays, and appends no audit entry.
C19_InsufficientDebitRejected ==
    [][\A o \in Ops :
          (wop[o].pc = "update" /\ wop[o].op = "debit" /\ wop'[o] # wop[o]
              /\ wop[o].amount > wallets[wop[o].userId])
             => /\ wop'[o].pc = "done"
                /\ wop'[o].outcome = "ValidationError"
                /\ wallets' = wallets
                /\ auditLogs' = auditLogs]_vars

\* Call c was creditWallet(u, a) and has returned; call d, the next call made,
\* was debitWallet(u, a) and has ended; no later call has been made.
CreditThenDebit(c, d, u, a) ==
    /\ d = c + 1
    /\ wop[c].pc = "done" /\ wop[c].op = "credit" /\ wop[c].outcome = "success"
    /\ wop[c].userId = u /\ wop[c].amount = a
    /\ wop[d].pc = "done" /\ wop[d].op = "debit"
    /\ wop[d].userId = u /\ wop[d].amount = a
    /\ \A o \in Ops : o > d => wop[o].pc = "idle"

\* The balance before the credit, as creditWallet returns it (previousBalance).
BalanceBeforeCredit(c) == wop[c].newBalance - wop[c].amount

\* The debit was carried out and the wallet is back at the earlier balance.
BalanceRestored(c, d, u) ==
    /\ wop[d].outcome = "success"
    /\ wop[d].newBalance = BalanceBeforeCredit(c)
    /\ wallets[u] = BalanceBeforeCredit(c)

\* C20 as stated: after creditWallet(u, a) followed directly by
\* debitWallet(u, a) the balance is what it was before the credit, and each of
\* the two calls has appended its audit entry (wallet_credit, then
\* wallet_debit) and nothing else.
C20_CreditDebitRoundTrip ==
    [][/\ \A c, d \in Ops, u \in Users, a \in Amounts :
             CreditThenDebit(c, d, u, a)' => BalanceRestored(c, d, u)'
       /\ \A o \in Ops :
             (wop[o].pc = "audit" /\ wop'[o] # wop[o])
                => auditLogs' = Append(auditLogs,
                                       <<wop[o].userId, AuditAction(wop[o].op)>>)
       /\ \A o \in Ops :
             (wop[o].pc # "audit" /\ wop'[o] # wop[o]) => auditLogs' = auditLogs]_vars

\* C21: every user has at most one wallet row, and of the createWallet calls
\* made for one user at most one succeeds, also when two calls run the
\* existence check before either inserts.
C21_OneWalletPerUser ==
    \A u \in Users :
        /\ walletRows[u] <= 1
        /\ Cardinality({w \in WalletCreates :
                           cw[w].userId = u /\ cw[w].outcome = "success"}) <= 1

\* C22: with calls issued one after another, the balance getWalletBalance
\* hands to its caller or to debitWallet's balance check is the balance the
\* store holds, which is what it returns with the cache disabled; so returned
\* balances and the accepting or rejecting of debits do not depend on the cache.
GetsBalance(o) ==
    /\ wop[o].pc \in {"idle", "cacheSet"}
    /\ wop[o]'.pc \in {"update", "done"}
    /\ wop[o]'.op \in {"balance", "debit"}
BalanceGot(o) == IF wop[o].op = "balance" THEN wop[o].newBalance ELSE wop[o].read
C22_CacheOnlyAccelerates ==
    [][\A o \in Ops : GetsBalance(o) => BalanceGot(o)' = wallets[wop[o]'.userId]]_vars

\* C23: when the audit insert of a creditWallet or debitWallet call fails, the
\* call still returns its normal result (success, with the balance its UPDATE
\* returned) and the balance it wrote stays as it is.
AuditInsertFails(o) ==
    /\ wop[o].pc = "audit"
    /\ wop[o]' # wop[o]
    /\ auditLogs' = auditLogs
C23_AuditFailureNeverAborts ==
    [][\A o \in Ops :
          AuditInsertFails(o)
             => /\ wop[o]'.pc = "done"
                /\ wop[o]'.outcome = "success"
                /\ wop[o]'.newBalance = wop[o].newBalance
                /\ wallets' = wallets]_vars

\* A credit that returned its result, with the balance raised, and no audit row.
C23_Witness ==
    /\ wop[1].pc = "done" /\ wop[1].op = "credit" /\ wop[1].outcome = "success"
    /\ wop[2].pc = "idle"
    /\ wallets[wop[1].userId] = wop[1].newBalance
    /\ wop[1].newBalance >= wop[1].amount
    /\ auditLogs = << >>

\* C28: a creditWallet or debitWallet call with amount <= 0 ends at once with
\* ValidationError, and the step leaves the balances, the cached balances and
\* the audit log as they were; no such call is ever past its entry.
NonPositiveCall(o) ==
    /\ wop[o].op \in {"credit", "debit"}
    /\ wop[o].amount <= 0
C28_NonPositiveAmountRejected ==
    [][\A o \in Ops :
          (wop[o].pc = "idle" /\ NonPositiveCall(o)')
             => /\ wop[o]'.pc = "done"
                /\ wop[o]'.outcome = "ValidationError"
                /\ wallets' = wallets
                /\ cache' = cache
                /\ auditLogs' = auditLogs]_vars

\* A debit of 0 rejected while the wallet holds a balance and a cached entry.
C28_Witness ==
    \E o \in Ops :
        /\ wop[o].pc = "done" /\ wop[o].op = "debit" /\ wop[o].amount = 0
        /\ wop[o].outcome = "ValidationError"
        /\ wallets[wop[o].userId] > 0
        /\ cache[wop[o].userId] # NoCache

\* C24: a getValidToken call that finds the token in the cache returns it, and
\* one that finds none fetches a token, stores it under the token key and
\* returns it.
C24_MissFetchesAndCaches ==
    [][\A g \in TokenCalls :
          /\ (tk[g].pc = "idle" /\ tk[g]'.op = "getValidToken"
                 /\ tk[g]'.outcome = "success") => tk[g]'.token = tokenCache
          /\ (tk[g].pc = "fetch" /\ tk[g]' # tk[g])
                => /\ tk[g]'.outcome = "success"
                   /\ tk[g]'.token # NoToken
                   /\ tokenCache' = tk[g]'.token]_vars

\* C25: the getValidToken call that follows an invalidateToken call which has
\* returned does not return a token from the cache, and when it has found the
\* cache empty it returns a token fetched from the endpoint.
AfterInvalidate(g) ==
    /\ g > 1
    /\ tk[g - 1].op = "invalidateToken" /\ tk[g - 1].pc = "done"
    /\ tk[g].op = "getValidToken" /\ tk[g].pc = "done"
C25_FreshTokenAfterInvalidate ==
    \A g \in TokenCalls :
        AfterInvalidate(g) => /\ tk[g].outcome = "success" => tk[g].miss
                              /\ tk[g].miss => tk[g].outcome = "success"

\* C26: a getValidToken call whose fetch fails after a miss ends with
\* 'Authentication failed', returns no token and leaves the cache as it was.
FetchFails(g) ==
    /\ tk[g].pc = "fetch"
    /\ tk[g]' # tk[g]
    /\ tk[g]'.outcome # "success"
C27_CredentialFailureInvalidatesOnce ==
    [][\A g \in TokenCalls :
          (tk[g].pc = "token" /\ tk[g]'.pc = "done")
             => /\ tk[g]'.outcome = "Failed to process payment request"
                /\ delCalls' = delCalls + 1]_vars

\* C29: a Transaction that carries an error message has status FAILED.
C29_ErrorMessageOnlyIfFailed ==
    \A t \in TxIds :
        transactions[t].errorMessage # NoMessage => transactions[t].status = "FAILED"

\* C30: a Transaction whose completed-at is set has status COMPLETED.
C30_CompletedAtOnlyIfCompleted ==
    \A t \in TxIds :
        transactions[t].completedAt # NULL => transactions[t].status = "COMPLETED"

\* C31: within one processPayment call the invoice is requested when the
\* Transaction exists in PENDING, the collection is requested when the invoice
\* has been returned and stored on the Transaction, the Transaction carries a
\* checkout id or a status beyond PENDING set by the call only when the
\* collection request has returned, and a call without an invoice has made no
\* collection request.
AtInvoiceRequest(p) == pp[p].pc = "invoice"
AtCollectionRequest(p) == pp[p].pc = "stk"
InvoiceStored(p) ==
    /\ pp[p].invoice # NULL
    /\ RowExists(pp[p].tx)
    /\ transactions[pp[p].tx].lightningInvoice = pp[p].invoice
C31_StepsStrictlyOrdered ==
    \A p \in Procs :
        /\ AtInvoiceRequest(p) => /\ RowExists(pp[p].tx)
                                  /\ transactions[pp[p].tx].status = "PENDING"
                                  /\ pp[p].invoice = NULL
        /\ AtCollectionRequest(p) => InvoiceStored(p) /\ pp[p].checkout = NULL
        /\ pp[p].checkout # NULL => InvoiceStored(p)
        /\ (pp[p].tx # NULL /\ transactions[pp[p].tx].status = "PROCESSING")
              => (pp[p].checkout # NULL /\ pp[p].pc \in {"release", "done"})
        /\ (pp[p].tx # NULL /\ pp[p].invoice = NULL)
              => transactions[pp[p].tx].mpesaCheckoutRequestId = NULL

\* One call that went through all the steps and one whose invoice request
\* failed.
C31_Witness ==
    \E p, q \in Procs :
        /\ pp[p].pc = "done" /\ pp[p].outcome = "success"
        /\ transactions[pp[p].tx].status = "PROCESSING"
        /\ pp[q].pc = "done" /\ pp[q].tx # NULL /\ pp[q].invoice = NULL
        /\ pp[q].outcome = "PaymentError"

\* C32: once a processPayment call that created a Transaction has ended, that
\* Transaction is not in PENDING.
C32_NoPendingAfterInitiate ==
    \A p \in Procs :
        (pp[p].pc = "done" /\ pp[p].tx # NULL)
           => transactions[pp[p].tx].status # "PENDING"

\* C33: no step of an updateWalletSettings call changes a balance; a call with
\* an invalid wallet type ends at once with ValidationError and leaves the
\* wallet row, the user row and the cache entry as they were; a call that
\* returns its result leaves no cached balance entry for the user.
SettingsStep(c) == ws[c]' # ws[c]
C33_SettingsFrame ==
    [][\A c \in SettingsCalls :
          SettingsStep(c)
             => /\ wallets' = wallets
                /\ (ws[c].pc = "idle" /\ ws[c]'.walletType = "invalid")
                      => /\ ws[c]'.pc = "done"
                         /\ ws[c]'.outcome = "ValidationError"
                         /\ settings' = settings
                         /\ cache' = cache
                /\ ws[c]'.outcome = "success"
                      => cache'[ws[c].userId] = NoCache]_vars

\* C34: when every getWalletBalance, creditWallet and debitWallet call has
\* returned, the cached balance of each user is absent or is the balance the
\* store holds.
C34_CacheAbsentOrCurrent ==
    NoCallUnderWay => \A u \in Users : cache[u] \in {NoCache, wallets[u]}

C36_PaidNeverMarkedFailed ==
    [][\A c \in Cbs :
          (cb[c].pc = "catch" /\ cb[c].ResultCode = 0
              /\ cb[c].error = "Database error" /\ cb'[c] # cb[c])
             => transactions' = transactions]_vars

\* A Transaction has reached PROCESSING once its row holds a CheckoutRequestID.
ReachedProcessing(t) == transactions[t].mpesaCheckoutRequestId # NULL

C38_CallbackNeverLost ==
    \A t \in TxIds :
        (transactions[t].status = "PROCESSING" /\ ReachedProcessing(t))
            => transactions[t].mpesaCheckoutRequestId \notin unmatched

\* --------------------------------------------------- PaymentService: create
\* C39: every transactions row in status 'pending' that no createPayment call
\* is still completing has its method-specific payment record: a call that
\* raised left no row behind.
C39_PendingRowHasPaymentRecord ==
    \A t \in TxIds :
        (transactions[t].status = "pending"
            /\ \A r \in Creates : ~(cp[r].pc = "record" /\ cp[r].tx = t))
           => t \in paymentRecords

====
